---- MODULE Spec2Model ----
(***************************************************************************)
(* Model of the cross-thread bridge in                                     *)
(* core/jni/android_view_ThreadedRenderer.cpp: RootRenderNode (the anchor  *)
(* with its pending animating-node vector and its Looper),                 *)
(* AnimationContextBridge (startFrame / runRemainingAnimations /           *)
(* callOnFinished) and the two MessageHandlers posted to the owner         *)
(* thread (InvokeAnimationListeners, RenderingException).                  *)
(*                                                                         *)
(* Two threads are modelled: the rendering thread (variables rPc, i,       *)
(* errorHandler, mOnFinishedEvents, animatingNodes) and the owner thread   *)
(* (variables oPc, oArg, oSnap, cur, idx).  They share                     *)
(* mPendingAnimatingRenderNodes and the Looper's message queue.  The       *)
(* process can end (LOG_ALWAYS_FATAL, or a fault in the unsynchronised     *)
(* access to the vector or on the heap that access has damaged), and       *)
(* deleteProxy destroys the bridge.                                        *)
(***************************************************************************)
EXTENDS Integers, Sequences, FiniteSets, TLC

\* ------------------------------------------------------------------------
\* Bounds of the model
\* ------------------------------------------------------------------------
\* total number of calls made into the bridge from outside that record something:
\* registerAnimatingRenderNode, callOnFinished and onError together
MaxCalls == 3

\* number of elements past the end of the buffer that a drain reads while
\* size() is garbage (a push_back in progress, or a torn vector)
MaxOverrun == 2

\* ------------------------------------------------------------------------
\* Value domains
\* ------------------------------------------------------------------------
\* the terminating character of a C string
NUL == 0
\* render nodes the owner thread may register
Nodes == {1, 2}
\* what a read of the vector that races with push_back may yield
GarbageNode == 0
\* the mark of a torn vector
TornMark == -1
\* animators and listeners of finished events
Animators == {1}
Listeners == {1}

\* std::string values passed to onError: plain, and with an embedded NUL
Messages == {<<1, 2>>, <<1, NUL, 2>>}

VARIABLES
    mLooper,                       \* RootRenderNode::mLooper
    mPendingAnimatingRenderNodes,  \* RootRenderNode::mPendingAnimatingRenderNodes
    animatingNodes,                \* nodes the startFrame in progress has passed to
                                   \* addAnimatingRenderNode so far, in call order
    mOnFinishedEvents,             \* AnimationContextBridge::mOnFinishedEvents
    queue,                         \* the Looper's message queue of the owner thread
    errorHandler,                  \* TreeInfo::errorHandler
    rPc,                           \* position of the rendering thread
    i,                             \* loop index of doAttachAnimatingNodes
    oPc,                           \* position of the owner thread
    oArg,                          \* node the owner thread is pushing
    oSnap,                         \* the vector as the push_back in progress found it
    cur,                           \* MessageHandler the owner thread is executing
    idx,                           \* position of for_each in handleMessage
    delivered,                     \* onAnimationFinished calls, in call order
    thrown,                        \* messages of the exceptions thrown on the owner thread
    recorded,                      \* history: every event recorded by callOnFinished
    posts,                         \* history: every handler given to Looper::sendMessage
    regs,                          \* history: number of registerAnimatingRenderNode calls
    errors,                        \* history: every message given to onError
    registered,                    \* history: nodes of the register calls since the last startFrame
    protocolKept,                  \* history: no push_back has overlapped a startFrame so far
    raced,                         \* a clear() was in progress during the push_back in progress
    clearRaced,                    \* a push_back was in progress during the clear() in progress
    corrupted,                     \* a raced call, or a call on a torn vector, has written
                                   \* or freed memory it did not own
    discarded,                     \* ids of the events destroyed with a bridge, unposted
    early                          \* history: an event recorded outside the advancement is in
                                   \* the batch, or was in the batch flushed by this frame

vars == << mLooper, mPendingAnimatingRenderNodes, animatingNodes, mOnFinishedEvents,
           queue, errorHandler, rPc, i, oPc, oArg, oSnap, cur, idx, delivered,
           thrown,
           recorded, posts, regs, errors, registered, protocolKept,
           raced, clearRaced, corrupted, discarded, early >>

rVars == << animatingNodes, mOnFinishedEvents, errorHandler, rPc, i >>
oVars == << oPc, oArg, oSnap, cur, idx >>
startVars == << errors, registered, protocolKept >>

\* ------------------------------------------------------------------------
\* Data
\* ------------------------------------------------------------------------
\* class OnFinishedEvent; id is the ordinal of the callOnFinished call
OnFinishedEvent(id, animator, listener) ==
    [id |-> id, animator |-> animator, listener |-> listener]

\* std::string::c_str() as read by jniThrowException: the characters before the first NUL
RECURSIVE c_str(_)
c_str(s) ==
    IF s = << >> THEN << >>
    ELSE IF Head(s) = NUL THEN << >>
    ELSE << Head(s) >> \o c_str(Tail(s))

\* the constructor's mOnFinishedEvents.swap(events): what the handler holds
SwapTaken(events) == events

\* fault: the constructor copies the vector instead of swapping it
SwapLeft_copy(events) == events

\* the constructor's mOnFinishedEvents.swap(events): what is left in the caller's vector
SwapLeft(events) == << >>

\* new InvokeAnimationListeners(events)
InvokeAnimationListeners(events) ==
    [kind |-> "InvokeAnimationListeners", mOnFinishedEvents |-> SwapTaken(events),
     mMessage |-> << >>]

\* fault: the handler does not keep the message
RenderingException_blank(message) ==
    [kind |-> "RenderingException", mOnFinishedEvents |-> << >>, mMessage |-> << >>]

\* new RenderingException(vm, message)
RenderingException(message) ==
    [kind |-> "RenderingException", mOnFinishedEvents |-> << >>, mMessage |-> message]

\* no handler in execution
NoHandler == [kind |-> "none", mOnFinishedEvents |-> << >>, mMessage |-> << >>]

\* Looper::sendMessage(handler, 0): enqueue behind the messages already due
LooperSendMessage(q, handler) == Append(q, handler)

\* fault: the handler is put in front of the messages already queued
sendMessage_front(q, handler) == << handler >> \o q

\* RootRenderNode::sendMessage
sendMessage(q, handler) == LooperSendMessage(q, handler)

\* RootRenderNode::attachAnimatingNode: push_back
attachAnimatingNode(pending, node) == Append(pending, node)

\* AnimationContext::addAnimatingRenderNode
addAnimatingRenderNode(active, node) == Append(active, node)

\* a vector whose _M_start and _M_finish were stored by different threads and
\* belong to different buffers: _M_start is that of the buffer a reallocating
\* push_back filled, which holds buf, and size() is garbage
Torn(buf) == << TornMark >> \o buf

IsTorn(pending) == pending # << >> /\ pending[1] = TornMark

\* the elements of the buffer _M_start of a torn vector points to
Buffer(pending) == Tail(pending)

\* history: the number of calls made into the bridge so far
Calls == regs + Len(recorded) + Len(errors)

\* the process is running and the anchor exists
Alive == mLooper = "looper" /\ rPc # "aborted"

\* the process is running: the owner thread's Looper, which the anchor only
\* holds a reference to, goes on dispatching after the anchor is destroyed
Running == mLooper \in {"looper", "released"} /\ rPc # "aborted"

\* ------------------------------------------------------------------------
\* Initial state: the process before the anchor is created
\* ------------------------------------------------------------------------
Init ==
    /\ mLooper = "unset"
    /\ mPendingAnimatingRenderNodes = << >>
    /\ animatingNodes = << >>
    /\ mOnFinishedEvents = << >>
    /\ queue = << >>
    /\ errorHandler = "NULL"
    /\ rPc = "idle"
    /\ i = 0
    /\ oPc = "idle"
    /\ oArg = GarbageNode
    /\ oSnap = << >>
    /\ cur = NoHandler
    /\ idx = 0
    /\ delivered = << >>
    /\ thrown = << >>
    /\ recorded = << >>
    /\ posts = << >>
    /\ regs = 0
    /\ errors = << >>
    /\ registered = << >>
    /\ protocolKept = TRUE
    /\ raced = FALSE
    /\ clearRaced = FALSE
    /\ corrupted = FALSE
    /\ discarded = {}
    /\ early = FALSE

\* ------------------------------------------------------------------------
\* Owner thread
\* ------------------------------------------------------------------------
\* fault: the constructor does not check the looper it obtained
createRootRenderNode_noCheck(hasLooper) ==
    /\ mLooper = "unset"
    /\ rPc = "idle"
    /\ mLooper' = IF hasLooper THEN "looper" ELSE "NULL"
    /\ rPc' = rPc
    /\ UNCHANGED << mPendingAnimatingRenderNodes, animatingNodes, mOnFinishedEvents,
                    queue, errorHandler, i, oVars, delivered, thrown, recorded, discarded,
                    posts, regs, startVars, raced, corrupted, clearRaced,
                    early >>

\* android_view_ThreadedRenderer_createRootRenderNode -> RootRenderNode(env):
\* LOG_ALWAYS_FATAL_IF(!mLooper.get(), ...)
createRootRenderNode(hasLooper) ==
    /\ mLooper = "unset"
    /\ rPc = "idle"
    /\ IF hasLooper
       THEN /\ mLooper' = "looper"
            /\ rPc' = rPc
       ELSE /\ mLooper' = "NULL"
            /\ rPc' = "aborted"
    /\ UNCHANGED << mPendingAnimatingRenderNodes, animatingNodes, mOnFinishedEvents,
                    queue, errorHandler, i, oVars, delivered, thrown, recorded, discarded,
                    posts, regs, startVars, raced, corrupted, clearRaced,
                    early >>

\* positions of the rendering thread inside AnimationContextBridge::startFrame
StartFramePoints == {"attach", "clear", "clearing", "baseStartFrame"}

\* positions of the rendering thread inside doAttachAnimatingNodes
DrainPoints == {"attach", "clear", "clearing"}

\* positions of the rendering thread between two frames
BetweenFrames == {"idle", "unwound"}

\* where the rendering thread is when it is not inside a call into the bridge
\* or the anchor
BetweenCalls == {"idle", "unwound", "started", "prepared"}

\* android_view_ThreadedRenderer_registerAnimatingRenderNode: the owner thread
\* enters attachAnimatingNode
registerAnimatingRenderNode(node) ==
    /\ Alive
    /\ oPc = "idle"
    /\ Calls < MaxCalls
    /\ oPc' = "push_back"
    /\ oArg' = node
    /\ oSnap' = mPendingAnimatingRenderNodes
    /\ regs' = regs + 1
    /\ raced' = (rPc = "clearing")
    /\ clearRaced' = (clearRaced \/ rPc = "clearing")
    /\ protocolKept' = (protocolKept /\ rPc \notin StartFramePoints)
    /\ registered' = IF protocolKept' THEN registered ELSE << >>
    /\ UNCHANGED << mLooper, mPendingAnimatingRenderNodes, rVars, queue, cur, idx,
                    delivered, thrown, recorded, discarded, posts, errors,
                    corrupted, early >>

\* the leading parts of a sequence, the empty one and the whole included
Prefixes(seq) == {SubSeq(seq, 1, n) : n \in 0..Len(seq)}

\* the buffer a push_back that found the vector as snap fills: the elements it
\* found and the node
pushBackBuffer(snap, node) ==
    IF IsTorn(snap) THEN Buffer(snap) ELSE attachAnimatingNode(snap, node)

\* the outcomes of a push_back that returns. Alone with the vector, or with
\* the loop of the drain, which only reads it, it appends the node. When it ran
\* concurrently with the drain's clear() (a data race, undefined behaviour) its
\* stores, computed from the vector as it was at entry, mix with those of
\* clear(): the node is appended to the vector as it is now,
\* or lost, or the vector is what the buffer it filled holds up to some length
\* (the elements clear() destroyed are back, with or without the node), or it
\* is left torn. On a torn vector the node is written behind the foreign
\* _M_finish and the vector stays torn
pushBackOutcomes(pending, node, wasRaced, snap) ==
    IF IsTorn(pending)
    THEN {pending}
    ELSE IF wasRaced
    THEN {attachAnimatingNode(pending, node), pending, Torn(pushBackBuffer(snap, node))}
             \cup Prefixes(pushBackBuffer(snap, node))
    ELSE {attachAnimatingNode(pending, node)}

\* mPendingAnimatingRenderNodes.push_back(animatingNode) completes
pushBackReturn ==
    /\ Alive
    /\ oPc = "push_back"
    /\ mPendingAnimatingRenderNodes' \in
           pushBackOutcomes(mPendingAnimatingRenderNodes, oArg, raced, oSnap)
    /\ oPc' = "idle"
    /\ oArg' = GarbageNode
    /\ oSnap' = << >>
    /\ raced' = FALSE
    /\ corrupted' = (corrupted \/ raced \/ IsTorn(mPendingAnimatingRenderNodes))
    /\ registered' = IF protocolKept THEN Append(registered, oArg) ELSE << >>
    /\ UNCHANGED << mLooper, rVars, queue, cur, idx, delivered, thrown, recorded, discarded,
                    posts, regs, errors, protocolKept, clearRaced,
                    early >>

\* a push_back that ran concurrently with clear(), or on a vector a race left
\* torn, or on a heap an earlier race damaged, writes through a stale pointer
\* or frees a buffer twice and the process ends (SIGSEGV, or SIGABRT from the
\* allocator)
pushBackFault ==
    /\ Alive
    /\ oPc = "push_back"
    /\ raced \/ corrupted \/ IsTorn(mPendingAnimatingRenderNodes)
    /\ rPc' = "aborted"
    /\ UNCHANGED << mLooper, mPendingAnimatingRenderNodes, animatingNodes,
                    mOnFinishedEvents, queue, errorHandler, i, oVars, delivered,
                    thrown, recorded, discarded, posts, regs, startVars, raced, corrupted, clearRaced,
                    early >>

\* android_view_ThreadedRenderer_deleteProxy: delete proxy. The context and with
\* it the AnimationContextBridge are destroyed between two calls into the
\* bridge; ~AnimationContextBridge discards mOnFinishedEvents without posting
\* it and gives up its reference to the RootRenderNode
deleteProxy ==
    /\ Alive
    /\ oPc = "idle"
    /\ rPc \in BetweenCalls
    /\ rPc' = "destroyed"
    /\ mOnFinishedEvents' = << >>
    /\ animatingNodes' = << >>
    /\ discarded' = discarded \cup {mOnFinishedEvents[k].id : k \in 1..Len(mOnFinishedEvents)}
    /\ early' = FALSE
    /\ UNCHANGED << mLooper, mPendingAnimatingRenderNodes, queue, errorHandler, i,
                    oVars, delivered, thrown, recorded, posts, regs, startVars,
                    raced, corrupted, clearRaced >>

\* android_view_ThreadedRenderer_createProxy for a root node whose proxy was
\* deleted: ContextFactoryImpl::createAnimationContext makes a new
\* AnimationContextBridge for the same RootRenderNode, with an empty batch and
\* an empty set of animating nodes; the pending vector is the root node's and
\* is kept
createProxy ==
    /\ Alive
    /\ oPc = "idle"
    /\ rPc = "destroyed"
    /\ rPc' = "idle"
    /\ UNCHANGED << mLooper, mPendingAnimatingRenderNodes, animatingNodes,
                    mOnFinishedEvents, queue, errorHandler, i, oVars, delivered,
                    thrown, recorded, discarded, posts, regs, startVars, raced,
                    corrupted, clearRaced, early >>

\* ~RootRenderNode on a vector a race left torn, or on a heap an earlier race
\* damaged: ~vector destroys the range from _M_start to a _M_finish of another
\* buffer, or frees a buffer the allocator does not own, and the process ends
\* (SIGSEGV, or SIGABRT from the allocator)
destroyRootRenderNodeFault ==
    /\ Alive
    /\ rPc = "destroyed"
    /\ oPc = "idle"
    /\ corrupted \/ IsTorn(mPendingAnimatingRenderNodes)
    /\ rPc' = "aborted"
    /\ UNCHANGED << mLooper, mPendingAnimatingRenderNodes, animatingNodes,
                    mOnFinishedEvents, queue, errorHandler, i, oVars, delivered,
                    thrown, recorded, discarded, posts, regs, startVars, raced,
                    corrupted, clearRaced, early >>

\* ~RootRenderNode, when the last reference goes after the bridge gave up its
\* own: mPendingAnimatingRenderNodes is discarded without being attached and the
\* reference to the Looper is released
destroyRootRenderNode ==
    /\ Alive
    /\ rPc = "destroyed"
    /\ oPc = "idle"
    /\ ~IsTorn(mPendingAnimatingRenderNodes)
    /\ mPendingAnimatingRenderNodes' = << >>
    /\ mLooper' = "released"
    /\ UNCHANGED << rVars, queue, oVars, delivered, thrown, recorded, discarded, posts, regs,
                    startVars, raced, corrupted, clearRaced, early >>

\* Looper::pollOnce on the owner thread: the oldest message is taken off the queue
LooperNext(q) == Head(q)

\* Looper::pollOnce on the owner thread: the queue without the message taken
LooperRest(q) == Tail(q)

\* the owner thread's Looper dequeues the next message and enters handleMessage
looperPoll ==
    /\ Running
    /\ oPc = "idle"
    /\ queue # << >>
    /\ cur' = LooperNext(queue)
    /\ queue' = LooperRest(queue)
    /\ oPc' = "handleMessage"
    /\ idx' = 1
    /\ UNCHANGED << mLooper, mPendingAnimatingRenderNodes, rVars, oArg, oSnap, delivered,
                    thrown, recorded, discarded, posts, regs, startVars, raced, corrupted, clearRaced,
                    early >>

\* InvokeAnimationListeners::callOnFinished: event.listener->onAnimationFinished(animator)
invokeListener(log, event) == Append(log, event)

\* InvokeAnimationListeners::handleMessage, one step of std::for_each
handleMessageInvoke ==
    /\ Running
    /\ oPc = "handleMessage"
    /\ cur.kind = "InvokeAnimationListeners"
    /\ idx <= Len(cur.mOnFinishedEvents)
    /\ delivered' = invokeListener(delivered, cur.mOnFinishedEvents[idx])
    /\ idx' = idx + 1
    /\ UNCHANGED << mLooper, mPendingAnimatingRenderNodes, rVars, queue, oPc, oArg, oSnap,
                    cur, thrown, recorded, discarded, posts, regs, startVars, raced, corrupted, clearRaced,
                    early >>

\* InvokeAnimationListeners::handleMessage: mOnFinishedEvents.clear() and return
handleMessageClear ==
    /\ Running
    /\ oPc = "handleMessage"
    /\ cur.kind = "InvokeAnimationListeners"
    /\ idx > Len(cur.mOnFinishedEvents)
    /\ cur' = NoHandler
    /\ idx' = 0
    /\ oPc' = "idle"
    /\ UNCHANGED << mLooper, mPendingAnimatingRenderNodes, rVars, queue, oArg, oSnap,
                    delivered, thrown, recorded, discarded, posts, regs, startVars, raced, corrupted, clearRaced,
                    early >>

\* getenv(vm): the JNIEnv of the calling thread, or LOG_ALWAYS_FATAL when
\* vm->GetEnv does not return JNI_OK
getenv(envOk) == IF envOk THEN "env" ELSE "fatal"

\* RenderingException::throwException: getenv(vm), then
\* jniThrowException(env, ..., message.c_str()); nothing is thrown when getenv
\* ends the process
throwException(log, message, envOk) ==
    IF getenv(envOk) = "env" THEN Append(log, c_str(message)) ELSE log

\* RenderingException::handleMessage: the exception is thrown and the handler
\* returns, or the process ends inside getenv
handleMessageThrow(envOk) ==
    /\ Running
    /\ oPc = "handleMessage"
    /\ cur.kind = "RenderingException"
    /\ thrown' = throwException(thrown, cur.mMessage, envOk)
    /\ IF getenv(envOk) = "env"
       THEN /\ cur' = NoHandler
            /\ idx' = 0
            /\ oPc' = "idle"
            /\ rPc' = rPc
       ELSE /\ rPc' = "aborted"
            /\ UNCHANGED << cur, idx, oPc >>
    /\ UNCHANGED << mLooper, mPendingAnimatingRenderNodes, animatingNodes,
                    mOnFinishedEvents, errorHandler, i, queue, oArg, oSnap,
                    delivered, recorded, discarded, posts, regs, startVars, raced, corrupted, clearRaced,
                    early >>

\* ------------------------------------------------------------------------
\* Rendering thread
\* ------------------------------------------------------------------------
\* fault: startFrame goes to AnimationContext::startFrame() without draining first
startFrame_baseFirst ==
    /\ Alive
    /\ rPc \in BetweenFrames
    /\ rPc' = "baseStartFrame"
    /\ i' = 0
    /\ protocolKept' = (protocolKept /\ oPc # "push_back")
    /\ registered' = IF protocolKept' THEN registered ELSE << >>
    /\ early' = (early /\ mOnFinishedEvents # << >>)
    /\ UNCHANGED << mLooper, mPendingAnimatingRenderNodes, animatingNodes,
                    mOnFinishedEvents, queue, errorHandler, oVars, delivered, thrown,
                    recorded, discarded, posts, regs, errors, raced, corrupted, clearRaced >>

\* AnimationContextBridge::startFrame is entered and calls doAttachAnimatingNodes
startFrame ==
    /\ Alive
    /\ rPc \in BetweenFrames
    /\ rPc' = "attach"
    /\ i' = 0
    /\ protocolKept' = (protocolKept /\ oPc # "push_back")
    /\ registered' = IF protocolKept' THEN registered ELSE << >>
    /\ early' = (early /\ mOnFinishedEvents # << >>)
    /\ UNCHANGED << mLooper, mPendingAnimatingRenderNodes, animatingNodes,
                    mOnFinishedEvents, queue, errorHandler, oVars, delivered, thrown,
                    recorded, discarded, posts, regs, errors, raced, corrupted, clearRaced >>

\* n garbage elements
Garbage(n) == [k \in 1..n |-> GarbageNode]

\* what the drain may take the vector to be: the vector, or, while a push_back
\* is in progress, the vector with the element being written already counted,
\* or, read between the push_back's stores to _M_start and _M_finish, a
\* vector of a garbage size that runs past the element being written. Of a
\* torn vector size() is garbage: the drain sees the elements of the buffer
\* _M_start points to and what lies behind them, up to any length
seenVectors(pending, node, racing) ==
    IF IsTorn(pending)
    THEN Prefixes(Buffer(pending) \o Garbage(MaxOverrun))
    ELSE IF racing
    THEN {pending} \cup {attachAnimatingNode(pending, node) \o Garbage(n) :
                             n \in 0..MaxOverrun}
    ELSE {pending}

\* mPendingAnimatingRenderNodes[i].get(): the element, or anything when the read
\* races with a push_back in progress
readPending(pending, k, racing) ==
    IF racing THEN {pending[k], GarbageNode} ELSE {pending[k]}

\* fault: the loop stops one element early
attachLoopCond_offByOne(k, pending) == k + 1 < Len(pending)

\* doAttachAnimatingNodes: the condition of the for loop, i < size()
attachLoopCond(k, pending) == k < Len(pending)

\* doAttachAnimatingNodes: one iteration of the for loop
doAttachAnimatingNodesLoop ==
    /\ Alive
    /\ rPc = "attach"
    /\ \E seen \in seenVectors(mPendingAnimatingRenderNodes, oArg, oPc = "push_back") :
           /\ attachLoopCond(i, seen)
           /\ \E node \in readPending(seen, i + 1, oPc = "push_back") :
                  animatingNodes' = addAnimatingRenderNode(animatingNodes, node)
    /\ i' = i + 1
    /\ UNCHANGED << mLooper, mPendingAnimatingRenderNodes, mOnFinishedEvents, queue,
                    errorHandler, rPc, oVars, delivered, thrown, recorded, discarded, posts,
                    regs, startVars, raced, clearRaced, corrupted,
                    early >>

\* doAttachAnimatingNodes: the loop condition is false and the loop is left
doAttachAnimatingNodesExit ==
    /\ Alive
    /\ rPc = "attach"
    /\ \E seen \in seenVectors(mPendingAnimatingRenderNodes, oArg, oPc = "push_back") :
           ~attachLoopCond(i, seen)
    /\ rPc' = "clear"
    /\ UNCHANGED << mLooper, mPendingAnimatingRenderNodes, animatingNodes,
                    mOnFinishedEvents, queue, errorHandler, i, oVars, delivered,
                    thrown, recorded, discarded, posts, regs, startVars, raced, clearRaced, corrupted, early >>

\* doAttachAnimatingNodes: mPendingAnimatingRenderNodes.clear() is entered; it reads
\* _M_start and _M_finish and destroys the elements between them. A push_back
\* in progress now runs concurrently with a call that writes the vector
doAttachAnimatingNodesClearBegin ==
    /\ Alive
    /\ rPc = "clear"
    /\ rPc' = "clearing"
    /\ clearRaced' = (oPc = "push_back")
    /\ raced' = (raced \/ oPc = "push_back")
    /\ UNCHANGED << mLooper, mPendingAnimatingRenderNodes, animatingNodes,
                    mOnFinishedEvents, queue, errorHandler, i, oVars, delivered,
                    thrown, recorded, discarded, posts, regs, startVars, corrupted, early >>

\* fault: the vector is not emptied after the loop
clearPending_keep(pending, racing, buf) == {pending}

\* mPendingAnimatingRenderNodes.clear(): whatever the vector holds is discarded;
\* a torn vector is well-formed again, _M_finish being set to _M_start.
\* A clear() during which a push_back was in progress (a data race) may also
\* have its store overwritten by the push_back's, the elements staying, or
\* pair its _M_finish with the push_back's new buffer, which holds buf, the
\* vector left torn
clearPending(pending, racing, buf) ==
    IF racing THEN {<< >>, pending, Torn(buf)} ELSE {<< >>}

\* the buffer the push_back that overlaps the clear() filled: that of the call
\* in progress, or, the call having returned, what the vector holds
clearBuffer(pending, pushing, snap, node) ==
    IF pushing THEN pushBackBuffer(snap, node)
    ELSE IF IsTorn(pending) THEN Buffer(pending)
    ELSE pending

\* doAttachAnimatingNodes: mPendingAnimatingRenderNodes.clear() stores _M_finish,
\* and the call returns
doAttachAnimatingNodesClear ==
    /\ Alive
    /\ rPc = "clearing"
    /\ mPendingAnimatingRenderNodes' \in
           clearPending(mPendingAnimatingRenderNodes,
                        clearRaced,
                        clearBuffer(mPendingAnimatingRenderNodes, oPc = "push_back",
                                    oSnap, oArg))
    /\ rPc' = "baseStartFrame"
    /\ clearRaced' = FALSE
    /\ corrupted' = (corrupted \/ clearRaced \/ IsTorn(mPendingAnimatingRenderNodes))
    /\ UNCHANGED << mLooper, animatingNodes, mOnFinishedEvents, queue, errorHandler,
                    i, oVars, delivered, thrown, recorded, discarded, posts, regs, startVars,
                    raced, early >>

\* where doAttachAnimatingNodes can end the process (SIGSEGV, or SIGABRT from
\* the allocator): in the loop, when the read of mPendingAnimatingRenderNodes[i]
\* runs off a buffer a push_back in progress is replacing, or off the
\* elements of a torn vector's buffer; in clear(), which destroys the
\* elements, when a push_back is or was in progress during the drain, the
\* vector is torn, or an earlier race damaged the heap
attachFaults(pc, k, pending, pushing, overlapped, damaged) ==
    \/ /\ pc = "attach"
       /\ pushing \/ (IsTorn(pending) /\ k >= Len(Buffer(pending)))
    \/ /\ pc \in {"clear", "clearing"}
       /\ pushing \/ overlapped \/ damaged \/ IsTorn(pending)

\* doAttachAnimatingNodes ends the process
doAttachAnimatingNodesFault ==
    /\ Alive
    /\ attachFaults(rPc, i, mPendingAnimatingRenderNodes, oPc = "push_back",
                    clearRaced, corrupted)
    /\ rPc' = "aborted"
    /\ UNCHANGED << mLooper, mPendingAnimatingRenderNodes, animatingNodes,
                    mOnFinishedEvents, queue, errorHandler, i, oVars, delivered,
                    thrown, recorded, discarded, posts, regs, startVars, raced, corrupted, clearRaced, early >>

\* AnimationContext::startFrame() runs and AnimationContextBridge::startFrame returns
baseStartFrame ==
    /\ Alive
    /\ rPc = "baseStartFrame"
    /\ rPc' = "started"
    /\ registered' = << >>
    /\ animatingNodes' = << >>
    /\ i' = 0
    /\ UNCHANGED << mLooper, mPendingAnimatingRenderNodes,
                    mOnFinishedEvents, queue, errorHandler, oVars, delivered,
                    thrown, recorded, discarded, posts, regs, errors, protocolKept, raced, corrupted, clearRaced, early >>

\* RootRenderNode::prepareTree: info.errorHandler = this; RenderNode::prepareTree begins
prepareTreeBegin ==
    /\ Alive
    /\ rPc = "started"
    /\ errorHandler' = "this"
    /\ rPc' = "prepareTree"
    /\ UNCHANGED << mLooper, mPendingAnimatingRenderNodes, animatingNodes,
                    mOnFinishedEvents, queue, i, oVars, delivered, thrown, recorded, discarded,
                    posts, regs, startVars, raced, corrupted, clearRaced,
                    early >>

\* where code that was handed the TreeInfo runs: RenderNode::prepareTree(info)
\* and AnimationContext::runRemainingAnimations(info)
ErrorPoints == {"prepareTree", "advance"}

\* fault: the error handler is put at the front of the owner thread's queue
onError_front(message) ==
    /\ Alive
    /\ rPc \in ErrorPoints
    /\ errorHandler = "this"
    /\ Calls < MaxCalls
    /\ queue' = << RenderingException(message) >> \o queue
    /\ posts' = Append(posts, RenderingException(message))
    /\ errors' = Append(errors, message)
    /\ UNCHANGED << mLooper, mPendingAnimatingRenderNodes, rVars, oVars, delivered,
                    thrown, recorded, discarded, regs, registered, protocolKept,
                    raced, corrupted, clearRaced,
                    early >>

\* RootRenderNode::onError, called through info.errorHandler by code that holds
\* the TreeInfo
onError(message) ==
    /\ Alive
    /\ rPc \in ErrorPoints
    /\ errorHandler = "this"
    /\ Calls < MaxCalls
    /\ queue' = LooperSendMessage(queue, RenderingException(message))
    /\ posts' = Append(posts, RenderingException(message))
    /\ errors' = Append(errors, message)
    /\ UNCHANGED << mLooper, mPendingAnimatingRenderNodes, rVars, oVars, delivered,
                    thrown, recorded, discarded, regs, registered, protocolKept,
                    raced, corrupted, clearRaced,
                    early >>

\* fault: prepareTree returns and leaves info.errorHandler set
prepareTreeEnd_noReset ==
    /\ Alive
    /\ rPc = "prepareTree"
    /\ errorHandler' = errorHandler
    /\ rPc' = "prepared"
    /\ UNCHANGED << mLooper, mPendingAnimatingRenderNodes, animatingNodes,
                    mOnFinishedEvents, queue, i, oVars, delivered, thrown, recorded, discarded,
                    posts, regs, startVars, raced, corrupted, clearRaced,
                    early >>

\* RootRenderNode::prepareTree: RenderNode::prepareTree returns; info.errorHandler = NULL
prepareTreeEnd ==
    /\ Alive
    /\ rPc = "prepareTree"
    /\ errorHandler' = "NULL"
    /\ rPc' = "prepared"
    /\ UNCHANGED << mLooper, mPendingAnimatingRenderNodes, animatingNodes,
                    mOnFinishedEvents, queue, i, oVars, delivered, thrown, recorded, discarded,
                    posts, regs, startVars, raced, corrupted, clearRaced,
                    early >>

\* AnimationContextBridge::runRemainingAnimations is entered and delegates to
\* AnimationContext::runRemainingAnimations
runRemainingAnimationsBegin ==
    /\ Alive
    /\ rPc = "prepared"
    /\ rPc' = "advance"
    /\ UNCHANGED << mLooper, mPendingAnimatingRenderNodes, animatingNodes,
                    mOnFinishedEvents, queue, errorHandler, i, oVars, delivered,
                    thrown, recorded, discarded, posts, regs, startVars, raced, corrupted, clearRaced,
                    early >>

\* positions of the rendering thread at which an animator may report its end:
\* outside a frame, during tree preparation, during the advancement pass
FinishPoints == {"idle", "prepareTree", "advance"}

\* fault: callOnFinished calls the listener on the spot instead of recording the event
callOnFinished_direct(animator, listener) ==
    /\ Alive
    /\ rPc \in FinishPoints
    /\ Calls < MaxCalls
    /\ LET event == OnFinishedEvent(Len(recorded) + 1, animator, listener)
       IN  /\ delivered' = Append(delivered, event)
           /\ recorded' = Append(recorded, event)
           /\ discarded' = discarded
    /\ early' = (early \/ rPc # "advance")
    /\ UNCHANGED << mLooper, mPendingAnimatingRenderNodes, animatingNodes, queue,
                    mOnFinishedEvents, errorHandler, rPc, i, oVars, thrown, posts,
                    regs, startVars, raced, corrupted, clearRaced >>

\* fault: an event recorded while no advancement is running is discarded
callOnFinished_onlyInAdvance(animator, listener) ==
    /\ Alive
    /\ rPc \in FinishPoints
    /\ Calls < MaxCalls
    /\ LET event == OnFinishedEvent(Len(recorded) + 1, animator, listener)
       IN  /\ mOnFinishedEvents' = IF rPc = "advance"
                                   THEN Append(mOnFinishedEvents, event)
                                   ELSE mOnFinishedEvents
           /\ recorded' = Append(recorded, event)
           /\ discarded' = discarded
    /\ early' = (early \/ rPc # "advance")
    /\ UNCHANGED << mLooper, mPendingAnimatingRenderNodes, animatingNodes, queue,
                    errorHandler, rPc, i, oVars, delivered, thrown, posts, regs,
                    startVars, raced, corrupted, clearRaced >>

\* AnimationContextBridge::callOnFinished
callOnFinished(animator, listener) ==
    /\ Alive
    /\ rPc \in FinishPoints
    /\ Calls < MaxCalls
    /\ LET event == OnFinishedEvent(Len(recorded) + 1, animator, listener)
       IN  /\ mOnFinishedEvents' = Append(mOnFinishedEvents, event)
           /\ recorded' = Append(recorded, event)
           /\ discarded' = discarded
    /\ early' = (early \/ rPc # "advance")
    /\ UNCHANGED << mLooper, mPendingAnimatingRenderNodes, animatingNodes, queue,
                    errorHandler, rPc, i, oVars, delivered, thrown, posts, regs,
                    startVars, raced, corrupted, clearRaced >>

\* AnimationContextBridge::callOnFinished on a heap an earlier race damaged:
\* mOnFinishedEvents.push_back allocates, the allocator finds its data
\* overwritten and the process ends before the event is recorded
callOnFinishedFault ==
    /\ Alive
    /\ rPc \in FinishPoints
    /\ corrupted
    /\ rPc' = "aborted"
    /\ UNCHANGED << mLooper, mPendingAnimatingRenderNodes, animatingNodes,
                    mOnFinishedEvents, queue, errorHandler, i, oVars, delivered,
                    thrown, recorded, discarded, posts, regs, startVars, raced, corrupted, clearRaced, early >>

\* fault: only the first finished event is put into the handler
flushUnits_firstOnly(events) ==
    IF Len(events) # 0 THEN << InvokeAnimationListeners(<< events[1] >>) >> ELSE << >>

\* fault: the handler is created without the size() test
flushUnits_always(events) == << InvokeAnimationListeners(events) >>

\* runRemainingAnimations, "post all the finished stuff": the handlers it creates
flushUnits(events) ==
    IF Len(events) # 0 THEN << InvokeAnimationListeners(events) >> ELSE << >>

\* fault: the last event stays behind in the bridge's batch
flushBatch_keepLast(events) ==
    IF Len(events) # 0 THEN << events[Len(events)] >> ELSE events

\* runRemainingAnimations, "post all the finished stuff": the batch afterwards
flushBatch(events) ==
    IF Len(events) # 0 THEN SwapLeft(events) ELSE events

\* fault: the handler is created and never sent
sendAll_drop(q, units) == q

\* mRootNode->sendMessage(message) for each handler created
sendAll(q, units) ==
    IF units = << >> THEN q ELSE sendMessage(q, units[1])

\* fault: the post is synchronous, the rendering thread waits until the owner
\* thread has executed everything that was posted before
runRemainingAnimationsReturn_waits ==
    /\ Alive
    /\ rPc = "advance"
    /\ queue = << >>
    /\ oPc # "handleMessage"
    /\ queue' = sendAll(queue, flushUnits(mOnFinishedEvents))
    /\ posts' = posts \o flushUnits(mOnFinishedEvents)
    /\ mOnFinishedEvents' = flushBatch(mOnFinishedEvents)
    /\ rPc' = "idle"
    /\ UNCHANGED << mLooper, mPendingAnimatingRenderNodes, animatingNodes,
                    errorHandler, i, oVars, delivered, thrown, recorded, discarded, regs,
                    startVars, raced, corrupted, clearRaced,
                    early >>

\* AnimationContext::runRemainingAnimations returns; the finished events are posted
\* and AnimationContextBridge::runRemainingAnimations returns
runRemainingAnimationsReturn ==
    /\ Alive
    /\ rPc = "advance"
    /\ queue' = sendAll(queue, flushUnits(mOnFinishedEvents))
    /\ posts' = posts \o flushUnits(mOnFinishedEvents)
    /\ mOnFinishedEvents' = flushBatch(mOnFinishedEvents)
    /\ rPc' = "idle"
    /\ UNCHANGED << mLooper, mPendingAnimatingRenderNodes, animatingNodes,
                    errorHandler, i, oVars, delivered, thrown, recorded, discarded, regs,
                    startVars, raced, corrupted, clearRaced,
                    early >>

\* how a fatal condition raised inside AnimationContext::runRemainingAnimations
\* leaves the call: the process aborts, or control leaves the frame, which is
\* abandoned, and the rendering thread waits for the next one
FatalOutcomes == {"aborted", "unwound"}

\* AnimationContext::runRemainingAnimations does not return: the statements after
\* the call are not executed
runRemainingAnimationsFatal ==
    /\ Alive
    /\ rPc = "advance"
    /\ rPc' \in FatalOutcomes
    /\ UNCHANGED << mLooper, mPendingAnimatingRenderNodes, animatingNodes,
                    mOnFinishedEvents, queue, errorHandler, i, oVars, delivered,
                    thrown, recorded, discarded, posts, regs, startVars, raced, corrupted, clearRaced,
                    early >>

\* ------------------------------------------------------------------------
\* Specification
\* ------------------------------------------------------------------------
OwnerLoop ==
    \/ looperPoll
    \/ handleMessageInvoke
    \/ handleMessageClear
    \/ \E envOk \in BOOLEAN : handleMessageThrow(envOk)

RenderFrame ==
    \/ startFrame
    \/ doAttachAnimatingNodesLoop
    \/ doAttachAnimatingNodesExit
    \/ doAttachAnimatingNodesClearBegin
    \/ doAttachAnimatingNodesClear
    \/ doAttachAnimatingNodesFault
    \/ baseStartFrame
    \/ prepareTreeBegin
    \/ prepareTreeEnd
    \/ runRemainingAnimationsBegin

Next ==
    \/ \E hasLooper \in BOOLEAN : createRootRenderNode(hasLooper)
    \/ \E node \in Nodes : registerAnimatingRenderNode(node)
    \/ pushBackReturn
    \/ pushBackFault
    \/ deleteProxy
    \/ createProxy
    \/ destroyRootRenderNode
    \/ destroyRootRenderNodeFault
    \/ OwnerLoop
    \/ RenderFrame
    \/ \E message \in Messages : onError(message)
    \/ \E animator \in Animators, listener \in Listeners : callOnFinished(animator, listener)
    \/ callOnFinishedFault
    \/ runRemainingAnimationsReturn
    \/ runRemainingAnimationsFatal

Spec == Init /\ [][Next]_vars

\* the rendering thread keeps producing frames, an advancement that is retried
\* eventually returns, and the owner thread's event loop keeps running
FairSpec ==
    /\ Spec
    /\ WF_vars(RenderFrame)
    /\ SF_vars(runRemainingAnimationsReturn)
    /\ WF_vars(pushBackReturn)
    /\ WF_vars(OwnerLoop)

\* only the rendering thread is scheduled: the owner thread may stop for good at
\* any point, with calls unfinished and handlers left in the queue
RenderFairSpec ==
    /\ Spec
    /\ WF_vars(RenderFrame)
    /\ SF_vars(runRemainingAnimationsReturn)

\* ------------------------------------------------------------------------
\* Properties
\* ------------------------------------------------------------------------
IsListenersUnit(u) == u.kind = "InvokeAnimationListeners"
IsErrorUnit(u) == u.kind = "RenderingException"

\* number of entries of a sequence of events that carry the id k
Occ(events, k) == Cardinality({j \in 1..Len(events) : events[j].id = k})

\* number of events in the handlers of a sequence of handlers
RECURSIVE EventCount(_)
EventCount(units) ==
    IF units = << >> THEN 0
    ELSE Len(Head(units).mOnFinishedEvents) + EventCount(Tail(units))

\* the events recorded since the bridge last posted a batch, in recording order
\* (the events before them were posted, or destroyed with an earlier bridge)
Unposted ==
    SubSeq(recorded, EventCount(posts) + Cardinality(discarded) + 1, Len(recorded))

\* the step in which AnimationContextBridge::startFrame returns
StartFrameReturns == rPc = "baseStartFrame" /\ rPc' = "started"

\* the step in which AnimationContextBridge::runRemainingAnimations returns
RunRemainingReturns == rPc = "advance" /\ rPc' = "idle"

\* the step in which InvokeAnimationListeners::handleMessage returns
ListenersUnitReturns == oPc = "handleMessage" /\ IsListenersUnit(cur) /\ oPc' = "idle"

\* C1: when N registerAnimatingNode calls were made before startFrame() (none of them
\* overlapping a startFrame), then at the return of startFrame() exactly those N
\* nodes, duplicates included, and no others have been added to the animation
\* context by this startFrame, in the order of the calls, and the pending vector
\* is empty.
C1_StartFrameAttachesRegistered ==
    [][(StartFrameReturns /\ protocolKept) =>
          /\ Len(animatingNodes) = Len(registered)
          /\ animatingNodes = registered
          /\ mPendingAnimatingRenderNodes' = << >>]_vars

\* C1 witness: the same node was registered twice before startFrame, and the drain
\* has attached both
C1_Witness ==
    /\ rPc = "baseStartFrame"
    /\ protocolKept
    /\ Len(registered) = 2
    /\ registered[1] = registered[2]
    /\ animatingNodes = registered
    /\ mPendingAnimatingRenderNodes = << >>

\* C2: when K >= 1 events were recorded for the frame, runRemainingAnimations posts
\* exactly one InvokeAnimationListeners handler, holding exactly those K events in the
\* order they were recorded; and when the owner thread has executed a posted handler,
\* the listener calls it made are exactly its events, in order, each made once.
C2_OneUnitPerFrame ==
    [][/\ (RunRemainingReturns /\ Len(Unposted) >= 1) =>
              /\ queue' = Append(queue, [kind |-> "InvokeAnimationListeners",
                                         mOnFinishedEvents |-> Unposted,
                                         mMessage |-> << >>])
              /\ Len(posts') = Len(posts) + 1
       /\ ListenersUnitReturns =>
              LET n == Len(cur.mOnFinishedEvents)
                  m == Len(delivered')
              IN  /\ \E k \in 1..Len(posts) : posts[k] = cur
                  /\ m >= n
                  /\ SubSeq(delivered', m - n + 1, m) = cur.mOnFinishedEvents
                  /\ \A j \in 1..n : Occ(delivered', cur.mOnFinishedEvents[j].id) = 1]_vars

\* C2 witness: a handler holding two events has called both listeners
C2_Witness ==
    /\ oPc = "handleMessage"
    /\ IsListenersUnit(cur)
    /\ Len(cur.mOnFinishedEvents) = 2
    /\ idx = 3
    /\ delivered = cur.mOnFinishedEvents

\* C3: when no event was recorded for the frame, runRemainingAnimations leaves the
\* owner thread's message queue as it was: no handler is posted.
C3_NoEmptyBatch ==
    [][(RunRemainingReturns /\ Unposted = << >>) =>
          /\ queue' = queue
          /\ posts' = posts]_vars

\* C3 witness: a frame in which only an error was reported has ended; the error's
\* handler is the only message ever posted
C3_Witness ==
    /\ rPc = "idle"
    /\ recorded = << >>
    /\ Len(posts) = 1
    /\ IsErrorUnit(posts[1])
    /\ queue = posts

\* number of places that hold the event with id k and will call its listener: the
\* bridge's batch and the handlers ever posted
Holders(k) ==
    Occ(mOnFinishedEvents, k)
      + Cardinality({u \in 1..Len(posts) : Occ(posts[u].mOnFinishedEvents, k) > 0})

\* C4: every recorded event is given to its listener at most once: it is called at
\* most once, it is in at most one posted handler, and once posted it is no longer
\* in the bridge's batch.
C4_AtMostOnce ==
    \A k \in 1..Len(recorded) :
        /\ Occ(delivered, k) <= 1
        /\ Holders(k) <= 1
        /\ \A u \in 1..Len(posts) : Occ(posts[u].mOnFinishedEvents, k) <= 1

\* C4 witness: two batches were posted by two frames and both have been delivered
C4_Witness ==
    /\ Len(posts) = 2
    /\ IsListenersUnit(posts[1])
    /\ IsListenersUnit(posts[2])
    /\ Len(delivered) = Len(recorded)
    /\ Len(recorded) >= 2
    /\ oPc = "idle"

\* the event recorded by the k-th callOnFinished call has been given to its listener
Delivered(k) == \E j \in 1..Len(delivered) : delivered[j].id = k

\* C5: under FairSpec every event recorded by callOnFinished is eventually given to
\* its listener, unless the process aborts or the bridge is destroyed while the
\* event is in its batch; an event that was posted is given to its listener
\* even when the bridge is destroyed after the post, unless the process aborts. (Events are never
\* taken back, so this is: again and again all the events recorded so far,
\* and all those posted so far, have been given to their listeners.)
C5_EventuallyDelivered ==
    []<>(\/ rPc = "aborted"
         \/ /\ \A k \in 1..Len(recorded) : Delivered(k) \/ k \in discarded
            /\ \A u \in 1..Len(posts) :
                   \A j \in 1..Len(posts[u].mOnFinishedEvents) :
                       Delivered(posts[u].mOnFinishedEvents[j].id))

\* C5 witness: three events were recorded and every one of them has been delivered
C5_Witness ==
    /\ Len(recorded) = 3
    /\ \A k \in 1..3 : Delivered(k)
    /\ rPc # "aborted"

\* the RenderingException handlers ever posted, in posting order
ErrorUnits == SelectSeq(posts, IsErrorUnit)

\* number of error handlers that are posted and have not executed yet
ErrorsWaiting ==
    Len(SelectSeq(queue, IsErrorUnit)) + (IF IsErrorUnit(cur) THEN 1 ELSE 0)

\* text is what a reader of the C string of message sees: the characters of message
\* before its first NUL, all of them when it has none
IsTextBeforeNul(text, message) ==
    /\ Len(text) <= Len(message)
    /\ \A k \in 1..Len(text) : text[k] = message[k] /\ text[k] # NUL
    /\ Len(text) = Len(message) \/ message[Len(text) + 1] = NUL

\* each onError call has posted exactly one RenderingException handler, which holds
\* the message of the call, and each handler executes at most once
OneErrorUnitPerCall ==
    /\ Len(ErrorUnits) = Len(errors)
    /\ \A j \in 1..Len(errors) : ErrorUnits[j].mMessage = errors[j]
    /\ Len(thrown) + ErrorsWaiting = Len(errors)

\* the rendering thread moves to position p from another position
Enters(p) == rPc' = p /\ rPc # p

\* C6 as stated: each onError(message) call posts exactly one RenderingException
\* handler, and the exception its execution throws on the owner thread carries the
\* message of the call, unmodified.
C6_ErrorTextUnmodified ==
    /\ OneErrorUnitPerCall
    /\ \A j \in 1..Len(thrown) : thrown[j] = errors[j]

\* C6 amended: each onError(message) call posts exactly one RenderingException
\* handler, and the exception its execution throws on the owner thread carries the
\* characters of the message that precede its first NUL character: the whole message
\* when it contains no NUL. The handler returns only after it has thrown that
\* exception; when the JavaVM gives no JNIEnv for the thread its execution ends
\* the process instead and nothing is thrown.
C6_ErrorTextUpToNul ==
    /\ [](/\ OneErrorUnitPerCall
          /\ \A j \in 1..Len(thrown) : IsTextBeforeNul(thrown[j], errors[j]))
    /\ [][/\ (oPc = "handleMessage" /\ IsErrorUnit(cur) /\ oPc' = "idle") =>
                  thrown' = Append(thrown, c_str(cur.mMessage))
          /\ thrown' # thrown =>
                  /\ oPc = "handleMessage" /\ IsErrorUnit(cur) /\ oPc' = "idle"
                  /\ rPc' = rPc
          /\ (oPc = "handleMessage" /\ IsErrorUnit(cur) /\ Enters("aborted")) =>
                  thrown' = thrown
         ]_vars

\* C6 witness: a message with an embedded NUL was reported and has been thrown
C6_Witness ==
    /\ Len(errors) = 1
    /\ errors[1] = <<1, NUL, 2>>
    /\ thrown = << <<1>> >>
    /\ queue = << >>

\* position in delivered of the listener call for the event with id k
Pos(k) == CHOOSE j \in 1..Len(delivered) : delivered[j].id = k

\* C7: of two batches posted by two runRemainingAnimations calls, the owner thread
\* calls every listener of the batch posted first before any listener of the batch
\* posted second.
C7_BatchesInPostingOrder ==
    \A a, b \in 1..Len(posts) :
        (a < b /\ IsListenersUnit(posts[a]) /\ IsListenersUnit(posts[b])) =>
            \A y \in 1..Len(posts[b].mOnFinishedEvents) :
                Delivered(posts[b].mOnFinishedEvents[y].id) =>
                    \A x \in 1..Len(posts[a].mOnFinishedEvents) :
                        /\ Delivered(posts[a].mOnFinishedEvents[x].id)
                        /\ Pos(posts[a].mOnFinishedEvents[x].id)
                             < Pos(posts[b].mOnFinishedEvents[y].id)

\* C7 witness: the second batch waits in the queue while the owner thread executes
\* the first one; every listener of the first has been called, none of the second
C7_Witness ==
    /\ oPc = "handleMessage"
    /\ IsListenersUnit(cur)
    /\ idx > Len(cur.mOnFinishedEvents)
    /\ queue # << >>
    /\ IsListenersUnit(Head(queue))
    /\ ~Delivered(Head(queue).mOnFinishedEvents[1].id)

\* C8 as stated: the owner thread is never inside push_back on the pending vector
\* while the rendering thread is inside the drain, after its first iteration and
\* before its clear().
C8_NeverDrainedAndAppendedConcurrently ==
    ~(oPc = "push_back" /\ rPc = "attach" /\ i >= 1)

\* C9: a listener is called only by the owner thread while it executes a posted
\* InvokeAnimationListeners handler, in a step that neither posts nor changes
\* anything of the rendering thread; callOnFinished only appends the event to the
\* batch and calls no listener.
C9_ListenersOnlyOnOwnerThread ==
    [][/\ (delivered' # delivered) =>
              /\ oPc = "handleMessage"
              /\ IsListenersUnit(cur)
              /\ \E k \in 1..Len(posts) : posts[k] = cur
              /\ rVars' = rVars
              /\ recorded' = recorded
              /\ posts' = posts
              /\ queue' = queue
       /\ (recorded' # recorded) =>
              /\ Len(recorded') = Len(recorded) + 1
              /\ mOnFinishedEvents' = Append(mOnFinishedEvents, recorded'[Len(recorded')])
              /\ delivered' = delivered
              /\ queue' = queue
              /\ oVars' = oVars]_vars

\* C9 witness: a listener has been called on the owner thread while the rendering
\* thread is inside the advancement pass with an event recorded and not yet posted
C9_Witness ==
    /\ Len(delivered) >= 1
    /\ rPc = "advance"
    /\ mOnFinishedEvents # << >>
    /\ oPc = "handleMessage"

\* the step in which AnimationContext::runRemainingAnimations, called by
\* AnimationContextBridge::runRemainingAnimations, raises a fatal condition
\* instead of returning
RunRemainingFails == rPc = "advance" /\ rPc' \in FatalOutcomes

\* C10 as stated: when the advancement raises a fatal condition inside
\* runRemainingAnimations and events were recorded and not yet posted, the step
\* in which the condition leaves the call posts one handler that holds those
\* events, and none is left behind in the bridge's batch.
C10_FlushedDespiteFailure ==
    [][(RunRemainingFails /\ Unposted # << >>) =>
           /\ queue' = Append(queue, InvokeAnimationListeners(Unposted))
           /\ posts' = Append(posts, InvokeAnimationListeners(Unposted))
           /\ mOnFinishedEvents' = << >>]_vars

\* C11: a drain that follows another drain with no register call in between
\* executes no iteration and hands no node to the animation context, whose
\* nodes are the same after it as before it: draining an empty vector adds
\* nothing, leaves the vector empty and startFrame goes on to return normally
C11_SecondDrainAddsNothing ==
    [][(StartFrameReturns /\ protocolKept /\ registered = << >>) =>
           /\ i = 0
           /\ animatingNodes = << >>
           /\ animatingNodes' = animatingNodes
           /\ mPendingAnimatingRenderNodes = << >>
           /\ rPc' = "started"]_vars

\* a second drain has finished: the nodes registered were drained by an earlier
\* frame, nothing was registered since, and this frame's drain has attached
\* nothing and has just cleared the vector
C11_Witness ==
    /\ rPc = "baseStartFrame"
    /\ protocolKept
    /\ registered = << >>
    /\ regs >= 1
    /\ oPc = "idle"
    /\ animatingNodes = << >>
    /\ i = 0
    /\ mPendingAnimatingRenderNodes = << >>

\* the steps of a frame on the rendering thread
RenderStep == RenderFrame \/ runRemainingAnimationsReturn

\* C12: the rendering thread never waits for the owner thread. Whatever the
\* owner thread is doing and whatever is left in its queue, the rendering thread
\* has a step to take, a register call in progress can return, and with the
\* rendering thread alone being scheduled a frame is started and every frame
\* that was started runs to the end of runRemainingAnimations (or the process
\* aborts, or the owner of the proxy deletes it between two calls)
C12_RenderingNeverWaits ==
    /\ []((Alive /\ rPc # "destroyed") => ENABLED <<RenderStep>>_vars)
    /\ []((Alive /\ oPc = "push_back") => ENABLED <<pushBackReturn>>_vars)
    /\ []<>(rPc = "attach" \/ ~Alive \/ rPc = "destroyed")
    /\ []<>(rPc = "idle" \/ ~Alive \/ rPc = "destroyed")

\* two frames have posted their batches and an error handler was posted before
\* them, the rendering thread is back between frames, and the owner thread has
\* executed nothing
C12_Witness ==
    /\ rPc = "idle"
    /\ Len(queue) >= 2
    /\ queue = posts
    /\ IsListenersUnit(queue[Len(queue)])
    /\ IsListenersUnit(queue[Len(queue) - 1])
    /\ delivered = << >>
    /\ thrown = << >>

\* the owner thread enters, and leaves, registerAnimatingRenderNode
RegisterEnters == oPc = "idle" /\ oPc' = "push_back"

RegisterReturns == oPc = "push_back" /\ oPc' = "idle"

\* C13 as stated: a register call changes nothing but the pending vector, to
\* which it appends its node: the nodes handed to the animation context, the
\* batch of finished events and the owner thread's queue stay as they are. A
\* node reaches the animation context only in an iteration of the drain inside
\* startFrame, so a node registered after a frame's drain waits for the next
\* startFrame. (Violated: the push_back of a register call that ran
\* concurrently with the drain, which nothing excludes, leaves the vector
\* without the node, or with elements the drain had already removed.)
C13_RegisterOnlyAppends ==
    [][/\ (RegisterEnters \/ RegisterReturns) =>
              /\ animatingNodes' = animatingNodes
              /\ mOnFinishedEvents' = mOnFinishedEvents
              /\ queue' = queue
              /\ posts' = posts
              /\ errorHandler' = errorHandler
       /\ RegisterEnters => mPendingAnimatingRenderNodes' = mPendingAnimatingRenderNodes
       /\ RegisterReturns =>
              mPendingAnimatingRenderNodes' =
                  Append(mPendingAnimatingRenderNodes, oArg)
       /\ (animatingNodes' # animatingNodes /\ ~Enters("destroyed") /\ ~Enters("started")) =>
              /\ rPc = "attach" /\ rPc' = "attach"
              /\ i' = i + 1
              /\ Len(animatingNodes') = Len(animatingNodes) + 1
              /\ SubSeq(animatingNodes', 1, Len(animatingNodes)) = animatingNodes
      ]_vars

\* C14: when the creating thread has no looper the constructor ends the
\* process, so no root node with a null looper exists: a null looper is seen
\* only in the aborted process, in which nothing was registered, recorded or
\* posted, and whatever the rendering thread or the owner thread does, it does
\* it on a root node whose looper is set, until the root node is destroyed after
\* the bridge
C14_NoAnchorWithoutLooper ==
    /\ mLooper = "NULL" =>
           /\ rPc = "aborted"
           /\ oPc = "idle"
           /\ Calls = 0
           /\ posts = << >>
           /\ mPendingAnimatingRenderNodes = << >>
           /\ animatingNodes = << >>
    /\ (mLooper # "unset" /\ rPc # "aborted") => mLooper \in {"looper", "released"}
    /\ mLooper = "released" => (rPc \in {"destroyed", "aborted"} /\ oPc # "push_back")
    /\ (Calls > 0 \/ posts # << >> \/ oPc # "idle" \/ rPc \notin {"idle", "aborted"})
           => mLooper \in {"looper", "released"}

\* the root node was created on a thread without a looper and the process aborted
C14_Witness ==
    /\ mLooper = "NULL"
    /\ rPc = "aborted"
    /\ Calls = 0

\* C15: no registration is lost to the interleaving of register calls with the
\* steps of the drain: when the drain clears the vector, every node in it has
\* been handed to the animation context by an iteration of this drain, also the
\* node appended after the loop was left
C15_NoRegistrationDiscarded ==
    [][(rPc = "clear" /\ rPc' = "clearing" /\ ~IsTorn(mPendingAnimatingRenderNodes)) =>
           Len(mPendingAnimatingRenderNodes) <= i]_vars

\* C16: whenever runRemainingAnimations returns, the bridge's batch is empty: a
\* non-empty batch has been swapped into the handler that was posted, which
\* holds what the batch held, and the batch is refilled only by callOnFinished
\* (the only other change it sees is its destruction with the bridge)
C16_BatchEmptyAfterFlush ==
    [][/\ RunRemainingReturns =>
              /\ mOnFinishedEvents' = << >>
              /\ mOnFinishedEvents # << >> =>
                     /\ Len(queue') = Len(queue) + 1
                     /\ queue'[Len(queue')].mOnFinishedEvents = mOnFinishedEvents
       /\ (mOnFinishedEvents' # mOnFinishedEvents /\ ~RunRemainingReturns) =>
              \/ /\ Len(recorded') = Len(recorded) + 1
                 /\ mOnFinishedEvents' =
                        Append(mOnFinishedEvents, recorded'[Len(recorded')])
              \/ /\ Enters("destroyed")
                 /\ rPc \in BetweenCalls
                 /\ queue' = queue
      ]_vars

\* runRemainingAnimations has returned from a frame in which three events were
\* recorded: they are in the handler waiting in the queue, the batch is empty
C16_Witness ==
    /\ rPc = "idle"
    /\ mOnFinishedEvents = << >>
    /\ Len(queue) = 1
    /\ IsListenersUnit(queue[1])
    /\ Len(queue[1].mOnFinishedEvents) = 3

\* C17: in every frame the drain runs once, inside startFrame and before
\* AnimationContext::startFrame(): the drain is entered only from between
\* frames, the generic setup is reached only by the drain's clear(), the
\* traversal and the advancement only after startFrame returned, and outside
\* the drain (in particular in runRemainingAnimations) the rendering thread
\* neither empties the pending vector nor hands a node to the animation context.
\* The clear() leaves the vector empty when no push_back was in progress
\* during it, and
\* outside the drain the vector changes only when a register call returns or
\* when the root node is destroyed. A bridge is destroyed, with the nodes it
\* was handed, only between two calls, and the bridge created in its place
\* starts between frames
C17_DrainOnceBeforeSetup ==
    [][/\ Enters("attach") => rPc \in BetweenFrames
       /\ Enters("clear") => rPc = "attach"
       /\ Enters("clearing") => rPc = "clear"
       /\ Enters("baseStartFrame") =>
              /\ rPc = "clearing"
              /\ (oPc # "push_back" /\ ~clearRaced) =>
                     mPendingAnimatingRenderNodes' = << >>
       /\ Enters("started") => rPc = "baseStartFrame"
       /\ Enters("prepareTree") => rPc = "started"
       /\ Enters("prepared") => rPc = "prepareTree"
       /\ Enters("advance") => rPc = "prepared"
       /\ Enters("idle") => rPc \in {"advance", "destroyed"}
       /\ Enters("destroyed") => rPc \in BetweenCalls
       /\ rPc \notin DrainPoints =>
              /\ \/ animatingNodes' = animatingNodes
                 \/ (Enters("destroyed") \/ Enters("started")) /\ animatingNodes' = << >>
              /\ \/ mPendingAnimatingRenderNodes' = mPendingAnimatingRenderNodes
                 \/ RegisterReturns
                 \/ rPc = "destroyed" /\ mLooper' = "released"
      ]_vars

\* a frame has reached its advancement: the two nodes registered, no call
\* overlapping a startFrame, were drained and the vector emptied before the
\* setup, and an event has been recorded
C17_Witness ==
    /\ rPc = "advance"
    /\ protocolKept
    /\ oPc = "idle"
    /\ mPendingAnimatingRenderNodes = << >>
    /\ regs = 2
    /\ Len(mOnFinishedEvents) = 1

\* C18: info.errorHandler refers to the root node exactly while
\* RenderNode::prepareTree is executing and is null in every other state, those
\* after prepareTree returned included, so every onError call that reaches the
\* root node is made during a traversal (in a process that is still running:
\* one that was ended during the traversal never reset the field)
C18_ErrorHandlerOnlyDuringPrepareTree ==
    /\ [](rPc # "aborted" => (errorHandler = "this" <=> rPc = "prepareTree"))
    /\ [][errors' # errors =>
              (rPc = "prepareTree" /\ rPc' = "prepareTree" /\ errorHandler = "this")]_vars

\* prepareTree has returned from a traversal that reported an error: the frame is
\* in its advancement and info.errorHandler is null again
C18_Witness ==
    /\ rPc = "advance"
    /\ errorHandler = "NULL"
    /\ Len(errors) = 1
    /\ Len(posts) = 1

\* the number of handlers the owner thread has taken off the queue, and the
\* number it has finished executing
Taken == Len(posts) - Len(queue)

Executed == Taken - (IF oPc = "handleMessage" THEN 1 ELSE 0)

\* the events of a sequence of handlers, one after the other
RECURSIVE EventsOf(_)
EventsOf(units) ==
    IF units = << >>
    THEN << >>
    ELSE units[1].mOnFinishedEvents \o EventsOf(Tail(units))

\* C19: error handlers and listener handlers posted through the same root node
\* go through one queue in posting order: the queue holds the handlers posted
\* last, in the order they were posted, the one being executed is the one
\* posted right before them, and the exceptions thrown and listener calls made
\* so far are those of the handlers posted before that, whatever their kinds.
\* So when a listener of a batch has been called, the error of every handler
\* posted before that batch has been thrown
C19_OneFifoQueue ==
    /\ Taken >= 0
    /\ queue = SubSeq(posts, Taken + 1, Len(posts))
    /\ oPc = "handleMessage" => (Taken >= 1 /\ cur = posts[Taken])
    /\ Len(thrown) = Len(SelectSeq(SubSeq(posts, 1, Executed), IsErrorUnit))
    /\ delivered =
           EventsOf(SelectSeq(SubSeq(posts, 1, Executed), IsListenersUnit))
             \o (IF oPc = "handleMessage" /\ IsListenersUnit(cur)
                 THEN SubSeq(cur.mOnFinishedEvents, 1, idx - 1)
                 ELSE << >>)
    /\ \A a, b \in 1..Len(posts) :
           (/\ a < b
            /\ IsErrorUnit(posts[a])
            /\ IsListenersUnit(posts[b])
            /\ \E y \in 1..Len(posts[b].mOnFinishedEvents) :
                   Delivered(posts[b].mOnFinishedEvents[y].id))
           => Len(thrown) >= Len(SelectSeq(SubSeq(posts, 1, a), IsErrorUnit))

\* an error was reported during a frame's traversal and the frame then flushed
\* its batch: the owner thread is executing the error handler while the batch
\* waits behind it in the queue
C19_Witness ==
    /\ Len(posts) = 2
    /\ IsErrorUnit(posts[1])
    /\ IsListenersUnit(posts[2])
    /\ oPc = "handleMessage"
    /\ cur = posts[1]
    /\ queue = << posts[2] >>
    /\ delivered = << >>

\* C20 as stated: an event recorded by callOnFinished is never dropped: no step
\* but the flush of runRemainingAnimations takes anything out of a non-empty
\* batch. (Violated: deleteProxy destroys the bridge between two calls and the
\* batch with it.)
C20_EarlyEventsNeverDropped ==
    [][(mOnFinishedEvents # << >> /\ ~RunRemainingReturns) =>
           /\ Len(mOnFinishedEvents') >= Len(mOnFinishedEvents)
           /\ SubSeq(mOnFinishedEvents', 1, Len(mOnFinishedEvents)) = mOnFinishedEvents
      ]_vars

\* C20 amended: callOnFinished has no check of where the frame is. An event
\* recorded outside the advancement (during the traversal, or before startFrame)
\* is accepted and appended to the batch; while the bridge exists no step but
\* the flush takes anything out of the batch or reorders it; and the next
\* runRemainingAnimations that returns posts one handler that holds the whole
\* batch, which is the last events recorded, in the order they were recorded.
\* When the bridge is destroyed before that call the batch is discarded with
\* it and nothing is posted
C20_EarlyEventsKept ==
    /\ []((Alive /\ rPc \in {"idle", "prepareTree"} /\ Calls < MaxCalls) =>
              \A animator \in Animators, listener \in Listeners :
                  ENABLED <<callOnFinished(animator, listener)>>_vars)
    /\ [][/\ (recorded' # recorded /\ rPc # "advance") =>
                 /\ mOnFinishedEvents' =
                        Append(mOnFinishedEvents, recorded'[Len(recorded')])
                 /\ early'
          /\ (mOnFinishedEvents # << >> /\ ~RunRemainingReturns) =>
                 \/ /\ Len(mOnFinishedEvents') >= Len(mOnFinishedEvents)
                    /\ SubSeq(mOnFinishedEvents', 1, Len(mOnFinishedEvents))
                           = mOnFinishedEvents
                    /\ early => early'
                 \/ /\ Enters("destroyed")
                    /\ rPc \in BetweenCalls
                    /\ mOnFinishedEvents' = << >>
                    /\ queue' = queue
          /\ (RunRemainingReturns /\ early) =>
                 /\ mOnFinishedEvents # << >>
                 /\ queue' = Append(queue, InvokeAnimationListeners(mOnFinishedEvents))
                 /\ mOnFinishedEvents =
                        SubSeq(recorded,
                               Len(recorded) - Len(mOnFinishedEvents) + 1,
                               Len(recorded))
         ]_vars

\* the frame that has just ended posted a handler with two events, of which at
\* least the first was recorded outside the advancement
C20_Witness ==
    /\ rPc = "idle"
    /\ early
    /\ mOnFinishedEvents = << >>
    /\ Len(posts) = 1
    /\ IsListenersUnit(posts[1])
    /\ Len(posts[1].mOnFinishedEvents) = 2
    /\ posts[1].mOnFinishedEvents = recorded

TypeOK ==
    /\ mLooper \in {"unset", "looper", "NULL", "released"}
    /\ rPc \in {"idle", "attach", "clear", "clearing", "baseStartFrame", "started",
                "prepareTree", "prepared", "advance", "unwound", "aborted", "destroyed"}
    /\ LET held == IF IsTorn(mPendingAnimatingRenderNodes)
                   THEN Buffer(mPendingAnimatingRenderNodes)
                   ELSE mPendingAnimatingRenderNodes
       IN  \A k \in 1..Len(held) : held[k] \in Nodes
    /\ clearRaced \in BOOLEAN
    /\ clearRaced => rPc \in {"clearing", "aborted"}
    /\ corrupted \in BOOLEAN
    /\ IsTorn(mPendingAnimatingRenderNodes) => corrupted
    /\ oPc # "push_back" => oSnap = << >>
    /\ discarded \subseteq 1..MaxCalls
    /\ oPc \in {"idle", "push_back", "handleMessage"}
    /\ errorHandler \in {"NULL", "this"}
    /\ Calls <= MaxCalls
    /\ rPc \notin (StartFramePoints \cup {"aborted"}) => animatingNodes = << >>
    /\ early \in BOOLEAN

====
